---- MODULE Spec2Model ----
(***************************************************************************)
(* The lambda-calculus abstract syntax tree of sandbox/lang/lambda/       *)
(* syntax.hpp: the node model, the four arity shapes, the language        *)
(* interface and implementation classes, the dynamic type query and the   *)
(* visitor's double dispatch.                                             *)
(*                                                                         *)
(* A node is an object on the heap, named by its address (its index in    *)
(* heap); the null pointer is address 0.  A Program's children live in    *)
(* the buffer of its std::vector; mem[n] lists the buffers the vector of  *)
(* node n has allocated, and the k-th of them has the address <<n, k>>.   *)
(***************************************************************************)
EXTENDS Integers, Sequences, FiniteSets

\* Bounds of the model.
MaxNodes == 3         \* Spec: nodes the builder allocates
MaxSize == 2          \* Spec: statements added to one Program
MaxInspected == 2     \* SpecInspect: nodes the builder allocates
MaxStatements == 3    \* SpecMulti, SpecRange: Definitions the builder allocates
MaxAdds == 4          \* SpecMulti, SpecRange: statements added to the Program
MaxRanges == 1        \* SpecRange: Node_range values the caller keeps

VARIABLES
  heap,     \* the nodes allocated so far, by address
  mem,      \* per node, the buffers its std::vector allocated so far
  held,     \* the Node_range values the caller holds
  ret,      \* what the last call returned or did on its visitor
  fault,    \* the process ran into undefined behaviour and stopped
  hist      \* history: per node, its constructor arguments and add_node arguments

vars == <<heap, mem, held, ret, fault, hist>>

Null == 0
Symbols == {"x"}
\* What a read of freed memory may return besides the stale value.
Garbage == Null - 1

----------------------------------------------------------------------------
\* The class hierarchy.

Interfaces ==
  {"Node", "Term", "Statement", "Program", "Variable", "Abstraction",
   "Application", "Definition", "Evaluation"}

Impls ==
  {"Variable_impl", "Abstraction_impl", "Application_impl", "Definition_impl",
   "Evaluation_impl", "Program_impl"}

\* The arity shape an implementation class derives from.
Shape(t) ==
  CASE t = "Variable_impl" -> "Nullary_node"
    [] t = "Abstraction_impl" -> "Binary_node"
    [] t = "Application_impl" -> "Binary_node"
    [] t = "Definition_impl" -> "Binary_node"
    [] t = "Evaluation_impl" -> "Unary_node"
    [] t = "Program_impl" -> "Multi_node"

\* The language interface an implementation class derives from (the Base
\* argument of its shape).
InterfaceOf(t) ==
  CASE t = "Variable_impl" -> "Variable"
    [] t = "Abstraction_impl" -> "Abstraction"
    [] t = "Application_impl" -> "Application"
    [] t = "Definition_impl" -> "Definition"
    [] t = "Evaluation_impl" -> "Evaluation"
    [] t = "Program_impl" -> "Program"

\* A slip in the hierarchy: Definition derived from Term.
DirectBase_Slip(t) ==
  CASE t \in {"Term", "Statement", "Program"} -> "Node"
    [] t \in {"Variable", "Application", "Abstraction", "Definition"} -> "Term"
    [] t = "Evaluation" -> "Statement"
    [] t \in Impls -> InterfaceOf(t)
    [] OTHER -> "Node"

\* The direct base class of a class (Node has none and maps to itself).
DirectBase(t) ==
  CASE t \in {"Term", "Statement", "Program"} -> "Node"
    [] t \in {"Variable", "Application", "Abstraction"} -> "Term"
    [] t \in {"Definition", "Evaluation"} -> "Statement"
    [] t \in Impls -> InterfaceOf(t)
    [] OTHER -> "Node"

RECURSIVE Bases(_)
\* A class and all its base classes.
Bases(t) == IF t = "Node" THEN {"Node"} ELSE {t} \cup Bases(DirectBase(t))

\* A slip in a constructor: Definition() tags itself Evaluation_node.
KindOf_Slip(i) ==
  CASE i = "Program" -> "Program_node"
    [] i = "Variable" -> "Variable_node"
    [] i = "Abstraction" -> "Abstraction_node"
    [] i = "Application" -> "Application_node"
    [] i = "Definition" -> "Evaluation_node"
    [] i = "Evaluation" -> "Evaluation_node"

\* The Kind tag the constructor of a leaf interface passes down to Node(Kind).
KindOf(i) ==
  CASE i = "Program" -> "Program_node"
    [] i = "Variable" -> "Variable_node"
    [] i = "Abstraction" -> "Abstraction_node"
    [] i = "Application" -> "Application_node"
    [] i = "Definition" -> "Definition_node"
    [] i = "Evaluation" -> "Evaluation_node"

Kind ==
  {"Program_node", "Variable_node", "Abstraction_node", "Application_node",
   "Definition_node", "Evaluation_node"}

----------------------------------------------------------------------------
\* Pointers and the dynamic type query.

Addrs == 1..Len(heap)

\* dynamic_cast<T*>(node): the same address when T is the dynamic type of
\* the node or one of its bases, the null pointer otherwise.
as(T, node) ==
  IF node # Null /\ T \in Bases(heap[node].type) THEN node ELSE Null

is(T, node) == as(T, node) # Null

\* The values a parameter of static type T* can take: the null pointer and
\* every node whose class converts to T.
PointersTo(T) == {Null} \cup {n \in Addrs : T \in Bases(heap[n].type)}

\* A pointer into a node's own array or into a vector's buffer.
NodeSlot(n, off) == [base |-> "node", id |-> n, gen |-> 0, off |-> off]
BufSlot(n, k, off) == [base |-> "buf", id |-> n, gen |-> k, off |-> off]

----------------------------------------------------------------------------
\* The arity shapes: what each constructor stores.

\* Nullary_node(): the array nodes[0] holds nothing.
Nullary_node == <<>>

\* Unary_node(child): nodes{child}.
Unary_node(child) == <<child>>

\* A slip in the member initializer: the operands stored swapped.
Binary_node_Swapped(left, right) == <<right, left>>

\* Binary_node(left, right): nodes{left, right}.
Binary_node(left, right) == <<left, right>>

\* A node object.  A fixed-arity node keeps its children in the array nodes;
\* a Multi_node keeps them in a std::vector, here its data pointer, size and
\* capacity (an empty vector owns no buffer: data is null; otherwise data
\* is the number k of the buffer <<n, k>> it points at).
Object(t, sym, nodes) ==
  [type |-> t, kind |-> KindOf(InterfaceOf(t)), sym |-> sym, nodes |-> nodes,
   data |-> Null, size |-> 0, capacity |-> 0]

\* A slip in end(): one slot short for a binary node.
end_Short(n) ==
  CASE Shape(heap[n].type) = "Nullary_node" -> NodeSlot(n, 0)
    [] Shape(heap[n].type) = "Unary_node" -> NodeSlot(n, 1)
    [] Shape(heap[n].type) = "Binary_node" -> NodeSlot(n, 1)
    [] Shape(heap[n].type) = "Multi_node" -> BufSlot(n, heap[n].data, heap[n].size)

\* begin(): nodes, or nodes.data() for a Multi_node.
begin(n) ==
  IF Shape(heap[n].type) = "Multi_node"
  THEN BufSlot(n, heap[n].data, 0)
  ELSE NodeSlot(n, 0)

\* end(): nodes, nodes + 1, nodes + 2, or nodes.data() + nodes.size().
end(n) ==
  CASE Shape(heap[n].type) = "Nullary_node" -> NodeSlot(n, 0)
    [] Shape(heap[n].type) = "Unary_node" -> NodeSlot(n, 1)
    [] Shape(heap[n].type) = "Binary_node" -> NodeSlot(n, 2)
    [] Shape(heap[n].type) = "Multi_node" -> BufSlot(n, heap[n].data, heap[n].size)

\* The cell a pointer points at may be read: it lies in a node's array, or in
\* the initialised part of a buffer that has not been freed.
Readable(p) ==
  IF p.base = "node"
  THEN p.off < Len(heap[p.id].nodes)
  ELSE /\ p.gen # Null
       /\ mem[p.id][p.gen].live
       /\ p.off < Len(mem[p.id][p.gen].cells)

\* The array a pointer points into (for a freed buffer: what it held last;
\* the null pointer points into nothing).
Array(p) ==
  IF p.base = "node" THEN heap[p.id].nodes
  ELSE IF p.gen = Null THEN <<>>
  ELSE mem[p.id][p.gen].cells

\* The elements of the pointer range [f, l): what the cells f, f + 1, ...
\* up to l hold.
Elems(f, l) == SubSeq(Array(f), f.off + 1, l.off)

\* Every cell of the range [f, l) may be read.
RangeReadable(f, l) ==
  \A i \in 1..(l.off - f.off) : Readable([f EXCEPT !.off = f.off + i - 1])

\* The child range of a node, as a loop from begin() to end() reads it.
Children(n) == Elems(begin(n), end(n))

----------------------------------------------------------------------------
\* Accessors of the implementation classes.

first(n) == heap[n].nodes[1]
second(n) == heap[n].nodes[2]
left(n) == heap[n].nodes[1]
right(n) == heap[n].nodes[2]
child(n) == heap[n].nodes[1]

\* static_cast<T*>(p): the same address, unchecked.
StaticCast(T, p) == p

Abstraction_var(n) == StaticCast("Variable", heap[n].nodes[1])
Abstraction_term(n) == StaticCast("Term", heap[n].nodes[2])
Application_func(n) == StaticCast("Term", heap[n].nodes[1])
Application_arg(n) == StaticCast("Term", heap[n].nodes[2])

\* A slip in an accessor: the definition's variable read from the second slot.
Definition_var_Slip(n) == as("Variable", second(n))

Definition_var(n) == as("Variable", first(n))
Definition_def(n) == as("Term", second(n))
Evaluation_term(n) == as("Term", first(n))

----------------------------------------------------------------------------
\* Construction.

\* Nothing to observe: the last call built or changed the tree.
Void == [op |-> "void", node |-> Null, arg |-> Null, val |-> Null]

Init ==
  /\ heap = <<>>
  /\ mem = <<>>
  /\ held = <<>>
  /\ ret = Void
  /\ fault = FALSE
  /\ hist = <<>>

\* new T(...): the object is placed at the next fresh address, Len(heap) + 1.
Alloc(obj, args) ==
  /\ ~fault
  /\ heap' = Append(heap, obj)
  /\ mem' = Append(mem, <<>>)
  /\ hist' = Append(hist, [args |-> args, adds |-> <<>>])
  /\ ret' = Void
  /\ UNCHANGED <<held, fault>>

Variable_impl(sym) ==
  Alloc(Object("Variable_impl", sym, Nullary_node), <<sym>>)

Abstraction_impl(v, t) ==
  Alloc(Object("Abstraction_impl", Null, Binary_node(v, t)), <<v, t>>)

Application_impl(l, r) ==
  Alloc(Object("Application_impl", Null, Binary_node(l, r)), <<l, r>>)

Definition_impl(v, t) ==
  Alloc(Object("Definition_impl", Null, Binary_node(v, t)), <<v, t>>)

Evaluation_impl(t) ==
  Alloc(Object("Evaluation_impl", Null, Unary_node(t)), <<t>>)

Program_impl ==
  Alloc(Object("Program_impl", Null, <<>>), <<>>)

----------------------------------------------------------------------------
\* Multi_node: append, and the ranges handed out.

\* The capacities std::vector may choose when it has to grow from capacity c
\* (any growth up to doubling; the library decides).
NewCapacities(c) == (c + 1)..(IF c = 0 THEN 1 ELSE 2 * c)

\* A slip in add_node: the node inserted at the front.
push_back_Front(p, node) ==
  LET o == heap[p]
      old == IF o.data = Null THEN <<>> ELSE mem[p][o.data].cells
  IN
  \/ /\ o.size < o.capacity
     /\ mem' = [mem EXCEPT ![p][o.data].cells = <<node>> \o @]
     /\ heap' = [heap EXCEPT ![p].size = @ + 1]
  \/ /\ o.size = o.capacity
     /\ \E nc \in NewCapacities(o.capacity) :
          /\ mem' = [mem EXCEPT ![p] =
                       Append(IF o.data = Null THEN @
                              ELSE [@ EXCEPT ![o.data].live = FALSE],
                              [live |-> TRUE, cells |-> <<node>> \o old])]
          /\ heap' = [heap EXCEPT ![p].data = Len(mem[p]) + 1,
                                  ![p].size = @ + 1,
                                  ![p].capacity = nc]

\* nodes.push_back(node): in place while the buffer has room; otherwise a
\* larger buffer is allocated, the elements are moved over and the old
\* buffer is freed.
push_back(p, node) ==
  LET o == heap[p]
      old == IF o.data = Null THEN <<>> ELSE mem[p][o.data].cells
  IN
  \/ /\ o.size < o.capacity
     /\ mem' = [mem EXCEPT ![p][o.data].cells = Append(@, node)]
     /\ heap' = [heap EXCEPT ![p].size = @ + 1]
  \/ /\ o.size = o.capacity
     /\ \E nc \in NewCapacities(o.capacity) :
          /\ mem' = [mem EXCEPT ![p] =
                       Append(IF o.data = Null THEN @
                              ELSE [@ EXCEPT ![o.data].live = FALSE],
                              [live |-> TRUE, cells |-> Append(old, node)])]
          /\ heap' = [heap EXCEPT ![p].data = Len(mem[p]) + 1,
                                  ![p].size = @ + 1,
                                  ![p].capacity = nc]

\* Multi_node::add_node(node).
add_node(p, node) ==
  /\ ~fault
  /\ push_back(p, node)
  /\ hist' = [hist EXCEPT ![p].adds = Append(@, node)]
  /\ ret' = Void
  /\ UNCHANGED <<held, fault>>

\* Program_impl::add_statement(stmt).
add_statement(p, stmt) ==
  /\ heap[p].type = "Program_impl"
  /\ add_node(p, stmt)

\* Program_impl::statements(): the Node_range {begin(), end()}, which the
\* caller keeps.  was is history: the sequence the range denotes when it is
\* returned.
statements(p) ==
  /\ ~fault
  /\ heap[p].type = "Program_impl"
  /\ held' = Append(held, [first |-> begin(p), last |-> end(p),
                           was |-> Children(p)])
  /\ ret' = [op |-> "statements", node |-> p, arg |-> Len(held) + 1,
             val |-> Children(p)]
  /\ UNCHANGED <<heap, mem, fault, hist>>

\* A loop over a held range, for (Statement* s : range).  Reading a buffer
\* that push_back has freed is undefined: each cell may still hold what it
\* held or anything else, or the read may fault.
ReadRange(i) ==
  LET r == held[i]
      n == r.last.off - r.first.off
  IN
  /\ ~fault
  /\ \/ /\ RangeReadable(r.first, r.last)
        /\ ret' = [op |-> "read", node |-> Null, arg |-> i,
                   val |-> Elems(r.first, r.last)]
        /\ UNCHANGED <<heap, mem, held, fault, hist>>
     \/ /\ ~RangeReadable(r.first, r.last)
        /\ \E g \in SUBSET (1..n) :
             ret' = [op |-> "read", node |-> Null, arg |-> i,
                     val |-> [k \in 1..n |->
                                IF k \in g THEN Garbage
                                ELSE Elems(r.first, r.last)[k]]]
        /\ UNCHANGED <<heap, mem, held, fault, hist>>
     \/ /\ ~RangeReadable(r.first, r.last)
        /\ fault' = TRUE
        /\ ret' = [op |-> "fault", node |-> Null, arg |-> i, val |-> Null]
        /\ UNCHANGED <<heap, mem, held, hist>>

----------------------------------------------------------------------------
\* Dynamic type query, as a call.

Query(T, n) ==
  /\ ~fault
  /\ ret' = [op |-> "as", node |-> n, arg |-> T, val |-> as(T, n)]
  /\ UNCHANGED <<heap, mem, held, fault, hist>>

----------------------------------------------------------------------------
\* Visitor.

\* The visit operation the accept of a leaf interface calls on the visitor.
AcceptVisit(i) ==
  CASE i = "Program" -> "visit_program"
    [] i = "Variable" -> "visit_variable"
    [] i = "Abstraction" -> "visit_abstraction"
    [] i = "Application" -> "visit_application"
    [] i = "Definition" -> "visit_definition"
    [] i = "Evaluation" -> "visit_evaluation"

\* n->accept(vis): the virtual call runs the accept of the interface the
\* node's class derives from, on the node itself.
accept(n) == [visit |-> AcceptVisit(InterfaceOf(heap[n].type)), node |-> n]

RECURSIVE Walk(_, _)
RECURSIVE WalkAll(_, _)
\* The visit operations a default traversal calls from node n, in order: the
\* node's own, then those of each child of its child range, first to last.
\* fuel bounds the depth by the number of nodes.
Walk(n, fuel) ==
  IF fuel = 0 THEN <<>>
  ELSE <<accept(n)>> \o WalkAll(Children(n), fuel - 1)

WalkAll(cs, fuel) ==
  IF cs = <<>> THEN <<>>
  ELSE Walk(Head(cs), fuel) \o WalkAll(Tail(cs), fuel)

RECURSIVE NullBelow(_, _)
\* A default traversal from n meets a null child (and calls accept on it).
NullBelow(n, fuel) ==
  /\ fuel > 0
  /\ \E k \in DOMAIN Children(n) :
       IF Children(n)[k] = Null THEN TRUE
       ELSE NullBelow(Children(n)[k], fuel - 1)

\* accept on a visitor that overrides every visit operation to record the
\* call and not descend.
AcceptRecorder(n) ==
  /\ ~fault
  /\ ret' = [op |-> "accept", node |-> n, arg |-> "Recorder",
             val |-> <<accept(n)>>]
  /\ UNCHANGED <<heap, mem, held, fault, hist>>

\* accept on a visitor that counts each visit and then descends as the
\* default does.
AcceptCounter(n) ==
  /\ ~fault
  /\ ~NullBelow(n, Len(heap))
  /\ ret' = [op |-> "accept", node |-> n, arg |-> "Counter",
             val |-> Walk(n, Len(heap))]
  /\ UNCHANGED <<heap, mem, held, fault, hist>>

\* The default descent calls accept on a null child: undefined, a fault.
AcceptFault(n) ==
  /\ ~fault
  /\ NullBelow(n, Len(heap))
  /\ fault' = TRUE
  /\ ret' = [op |-> "fault", node |-> n, arg |-> "Counter", val |-> Null]
  /\ UNCHANGED <<heap, mem, held, hist>>

----------------------------------------------------------------------------
\* The builder: any constructor call, in any order, with any arguments the
\* parameter types admit.

\* A slip in a signature: add_statement taking any Node*.
StatementArgs_Any == PointersTo("Node")

\* The arguments add_statement(Statement* stmt) admits.
StatementArgs == PointersTo("Statement")

Programs == {n \in Addrs : heap[n].type = "Program_impl"}

\* Any constructor call, while fewer than limit nodes exist.
Construct(limit) ==
  \/ \E sym \in Symbols : Len(heap) < limit /\ Variable_impl(sym)
  \/ \E v \in PointersTo("Variable"), t \in PointersTo("Term") :
       Len(heap) < limit /\ Abstraction_impl(v, t)
  \/ \E l \in PointersTo("Term"), r \in PointersTo("Term") :
       Len(heap) < limit /\ Application_impl(l, r)
  \/ \E v \in PointersTo("Variable"), t \in PointersTo("Term") :
       Len(heap) < limit /\ Definition_impl(v, t)
  \/ \E t \in PointersTo("Term") : Len(heap) < limit /\ Evaluation_impl(t)
  \/ Len(heap) < limit /\ Program_impl

\* Spec: trees built by any constructor calls and add_statement calls.
Next ==
  \/ Construct(MaxNodes)
  \/ \E p \in Programs, stmt \in StatementArgs :
       heap[p].size < MaxSize /\ add_statement(p, stmt)

Spec == Init /\ [][Next]_vars

\* SpecInspect: a caller queries and visits the nodes as they are built.
NextInspect ==
  \/ Construct(MaxInspected)
  \/ \E T \in Interfaces, n \in Addrs : Query(T, n)
  \/ \E n \in Addrs : AcceptRecorder(n)
  \/ \E n \in Addrs : AcceptCounter(n)
  \/ \E n \in Addrs : AcceptFault(n)

SpecInspect == Init /\ [][NextInspect]_vars

\* SpecMulti: one Program and the Definitions appended to it.
BuildStatements ==
  \/ Programs = {} /\ Program_impl
  \/ \E v \in PointersTo("Variable"), t \in PointersTo("Term") :
       /\ Len(heap) - Cardinality(Programs) < MaxStatements
       /\ Definition_impl(v, t)

NextMulti ==
  \/ BuildStatements
  \/ \E p \in Programs, stmt \in StatementArgs :
       heap[p].size < MaxAdds /\ add_statement(p, stmt)

SpecMulti == Init /\ [][NextMulti]_vars

\* SpecRange: the same, with a caller that keeps the ranges statements()
\* returns and loops over them later.
NextRange ==
  \/ NextMulti
  \/ \E p \in Programs : Len(held) < MaxRanges /\ statements(p)
  \/ \E i \in DOMAIN held : ReadRange(i)

SpecRange == Init /\ [][NextRange]_vars

----------------------------------------------------------------------------
\* SpecScenario: the default-traversal scenario.  The builder makes the
\* nodes of Program [Evaluation(Application(Abstraction(x, x), Variable(x)))]
\* in any order, gives every child to one parent, and a counting visitor is
\* accepted on any node at any time.

Scenario ==
  [Variable_impl |-> 3, Abstraction_impl |-> 1, Application_impl |-> 1,
   Evaluation_impl |-> 1, Program_impl |-> 1]

Count(t) == Cardinality({n \in Addrs : heap[n].type = t})

Wanted(t) == Count(t) < Scenario[t]

\* The node is a child of some node.
Owned(c) == \E n \in Addrs : \E k \in DOMAIN Children(n) : Children(n)[k] = c

\* The nodes of static type T* that have no parent yet.
Free(T) == {n \in PointersTo(T) : n # Null /\ ~Owned(n)}

NextScenario ==
  \/ \E sym \in Symbols : Wanted("Variable_impl") /\ Variable_impl(sym)
  \/ \E v \in Free("Variable"), t \in Free("Term") :
       Wanted("Abstraction_impl") /\ v # t /\ Abstraction_impl(v, t)
  \/ \E l \in Free("Term"), r \in Free("Term") :
       Wanted("Application_impl") /\ l # r /\ Application_impl(l, r)
  \/ \E t \in Free("Term") : Wanted("Evaluation_impl") /\ Evaluation_impl(t)
  \/ Wanted("Program_impl") /\ Program_impl
  \/ \E p \in Programs, stmt \in Free("Statement") :
       heap[p].size < 1 /\ add_statement(p, stmt)
  \/ \E n \in Addrs : AcceptCounter(n)

SpecScenario == Init /\ [][NextScenario]_vars

----------------------------------------------------------------------------
\* Properties.

ShapeOf(n) == Shape(heap[n].type)

\* C1: a Nullary node has an empty child range (begin() = end()), a Unary
\* node a child range of exactly one element and a Binary node one of
\* exactly two, and these are the constructor's arguments in their declared
\* order (first, then second), whatever was built or appended since.
C1_ArityInvariant ==
  \A n \in Addrs :
    LET cs == Children(n) IN
    /\ ShapeOf(n) = "Nullary_node" => begin(n) = end(n) /\ cs = <<>>
    /\ ShapeOf(n) = "Unary_node" => Len(cs) = 1 /\ cs = hist[n].args
    /\ ShapeOf(n) = "Binary_node" =>
         /\ Len(cs) = 2
         /\ cs[1] = hist[n].args[1]
         /\ cs[2] = hist[n].args[2]

\* A Binary node with two different children, and an operation after its
\* construction.
C1_Witness ==
  \E n \in Addrs :
    /\ ShapeOf(n) = "Binary_node"
    /\ hist[n].args[1] # hist[n].args[2]
    /\ n < Len(heap)

\* C2: the child range of a Program that started empty has as many
\* elements as add_statement was called on it, the i-th being the argument
\* of the i-th call.
C2_InsertionOrder ==
  \A p \in Programs :
    /\ heap[p].size = Len(hist[p].adds)
    /\ Len(Children(p)) = Len(hist[p].adds)
    /\ \A i \in 1..Len(hist[p].adds) : Children(p)[i] = hist[p].adds[i]

\* Three add_statement calls with three distinct Definitions.
C2_Witness ==
  \E p \in Programs :
    /\ Len(hist[p].adds) = 3
    /\ Cardinality({hist[p].adds[i] : i \in 1..3}) = 3
    /\ \A i \in 1..3 :
         /\ hist[p].adds[i] # Null
         /\ heap[hist[p].adds[i]].type = "Definition_impl"
    /\ Children(p) = hist[p].adds

\* C3: a range statements() returned stays valid under later appends: it
\* can still be read and denotes the sequence it denoted when returned.
C3_RangesStayValid ==
  \A i \in DOMAIN held :
    /\ RangeReadable(held[i].first, held[i].last)
    /\ Elems(held[i].first, held[i].last) = held[i].was

\* The kinds the claim puts in the category of an interface target.
Category(T) ==
  CASE T = "Node" -> Kind
    [] T = "Term" -> {"Variable_node", "Abstraction_node", "Application_node"}
    [] T = "Statement" -> {"Definition_node", "Evaluation_node"}
    [] T = "Program" -> {"Program_node"}
    [] T = "Variable" -> {"Variable_node"}
    [] T = "Abstraction" -> {"Abstraction_node"}
    [] T = "Application" -> {"Application_node"}
    [] T = "Definition" -> {"Definition_node"}
    [] T = "Evaluation" -> {"Evaluation_node"}

\* C4: is<T>(N) is true iff N's kind tag is in T's category, as<T>(N) is
\* present iff is<T>(N) and is then N itself; so is the value a query
\* returned.
C4_DowncastCorrect ==
  /\ \A n \in Addrs, T \in Interfaces :
       /\ is(T, n) <=> heap[n].kind \in Category(T)
       /\ as(T, n) # Null <=> is(T, n)
       /\ as(T, n) \in {Null, n}
  /\ ret.op = "as" =>
       ret.val = (IF heap[ret.node].kind \in Category(ret.arg)
                  THEN ret.node ELSE Null)

\* as<Variable>(A) on an Application node A returned absent, and as<Term>(A)
\* is A.
C4_Witness ==
  /\ ret.op = "as"
  /\ heap[ret.node].type = "Application_impl"
  /\ ret.arg = "Variable"
  /\ ret.val = Null
  /\ as("Term", ret.node) = ret.node

\* The visit operation the claim pairs with a kind.
VisitOfKind(k) ==
  CASE k = "Program_node" -> "visit_program"
    [] k = "Variable_node" -> "visit_variable"
    [] k = "Abstraction_node" -> "visit_abstraction"
    [] k = "Application_node" -> "visit_application"
    [] k = "Definition_node" -> "visit_definition"
    [] k = "Evaluation_node" -> "visit_evaluation"

C6_NoAbsentChild ==
  \A n \in Addrs :
    ShapeOf(n) \in {"Unary_node", "Binary_node"} =>
      \A k \in DOMAIN Children(n) : Children(n)[k] # Null

\* The child slots a node occupies.
SlotsOf(c) ==
  UNION {{<<n, k>> : k \in {j \in DOMAIN Children(n) : Children(n)[j] = c}} :
           n \in Addrs}

\* C7: every node occupies at most one child slot in total.
C7_ExclusiveOwnership ==
  \A c \in Addrs : Cardinality(SlotsOf(c)) <= 1

\* The nodes that are children of node n.
Kids(n) == {Children(n)[k] : k \in DOMAIN Children(n)} \ {Null}

RECURSIVE ReachFrom(_, _, _)
\* The nodes reachable from the set S by the child links kids, in at most
\* fuel steps.
ReachFrom(kids, S, fuel) ==
  IF fuel = 0 THEN S
  ELSE LET T == S \cup UNION {kids[n] : n \in S}
       IN IF T = S THEN S ELSE ReachFrom(kids, T, fuel - 1)

\* The nodes reachable from n by one or more child links.
Descendants(n) ==
  LET kids == [m \in Addrs |-> Kids(m)]
  IN ReachFrom(kids, kids[n], Len(heap))

\* C8: no node is its own descendant.
C8_Acyclic ==
  LET kids == [m \in Addrs |-> Kids(m)]
  IN \A n \in Addrs : n \notin ReachFrom(kids, kids[n], Len(heap))

\* A Program with a statement that has a child of its own.
C8_Witness ==
  \E p \in Programs : \E s \in Descendants(p) :
    heap[p].size > 0 /\ Descendants(s) # {}


\* The root of the scenario's tree, as it was built:
\* Program [Evaluation(Application(Abstraction(x, x), Variable(x)))].
ScenarioTree(p) ==
  /\ heap[p].type = "Program_impl"
  /\ Len(hist[p].adds) = 1
  /\ LET e == hist[p].adds[1] IN
     /\ heap[e].type = "Evaluation_impl"
     /\ LET a == hist[e].args[1] IN
        /\ heap[a].type = "Application_impl"
        /\ heap[hist[a].args[1]].type = "Abstraction_impl"
        /\ heap[hist[a].args[2]].type = "Variable_impl"
        /\ LET b == hist[a].args[1] IN
           /\ heap[hist[b].args[1]].type = "Variable_impl"
           /\ heap[hist[b].args[2]].type = "Variable_impl"

\* How many of the calls are the visit operation v.
Tally(calls, v) == Cardinality({i \in DOMAIN calls : calls[i].visit = v})

\* The scenario's tree in pre-order: Multi children in insertion order,
\* Binary children first then second.
PreOrder(p) ==
  LET e == hist[p].adds[1]
      a == hist[e].args[1]
      b == hist[a].args[1]
  IN <<p, e, a, b, hist[b].args[1], hist[b].args[2], hist[a].args[2]>>

WellBuilt(n) == \A k \in DOMAIN hist[n].args : hist[n].args[k] # Null

\* C10: the accessors of a node built with non-absent children return the
\* constructor's arguments by slot, never an absent reference, and agree
\* with the positional accessors and with the child range.
C10_Accessors ==
  \A n \in Addrs :
    LET a == hist[n].args IN
    /\ (heap[n].type = "Abstraction_impl" /\ WellBuilt(n)) =>
         /\ Abstraction_var(n) = a[1] /\ first(n) = a[1] /\ left(n) = a[1]
         /\ Abstraction_term(n) = a[2] /\ second(n) = a[2] /\ right(n) = a[2]
         /\ Children(n) = <<Abstraction_var(n), Abstraction_term(n)>>
    /\ (heap[n].type = "Application_impl" /\ WellBuilt(n)) =>
         /\ Application_func(n) = a[1] /\ first(n) = a[1]
         /\ Application_arg(n) = a[2] /\ second(n) = a[2]
         /\ Children(n) = <<Application_func(n), Application_arg(n)>>
    /\ (heap[n].type = "Definition_impl" /\ WellBuilt(n)) =>
         /\ Definition_var(n) = a[1] /\ first(n) = a[1]
         /\ Definition_def(n) = a[2] /\ second(n) = a[2]
         /\ Children(n) = <<Definition_var(n), Definition_def(n)>>
    /\ (heap[n].type = "Evaluation_impl" /\ WellBuilt(n)) =>
         /\ Evaluation_term(n) = a[1] /\ child(n) = a[1] /\ first(n) = a[1]
         /\ Children(n) = <<Evaluation_term(n)>>

\* A Definition built from a variable and a different term.
C10_Witness ==
  \E d \in Addrs :
    /\ heap[d].type = "Definition_impl" /\ WellBuilt(d)
    /\ hist[d].args[1] # hist[d].args[2]
    /\ Definition_var(d) = hist[d].args[1]

====
